---- MODULE Spec2Model ----
(***************************************************************************)
(* A model of OGRFeature (ogr/ogrfeature.cpp): a feature bound to a        *)
(* reference counted OGRFeatureDefn, owning an array of OGRField slots, an *)
(* optional OGRGeometry and a feature id.                                  *)
(*                                                                         *)
(* Representation.                                                         *)
(*  - A C string is a sequence of one-character strings.                   *)
(*  - A double is a fixed-point number: the integer count of 1/Scale       *)
(*    units.  The inputs are kept within the range where "%g" prints a     *)
(*    double exactly (at most six significant digits, no exponent).        *)
(*  - An OGRField slot is one integer whose meaning is given by the kind   *)
(*    that the OGRFeatureDefn declares for its index: the int for          *)
(*    OFTInteger, the fixed-point double for OFTReal, the address of a     *)
(*    heap string (NULL = 0) for OFTString.  CPLCalloc zero-fills it.      *)
(*  - Heap strings and geometries are entries of strHeap / geomHeap, the   *)
(*    address is the index; an entry counts how often it was released.     *)
(***************************************************************************)
EXTENDS Integers, Sequences, FiniteSets, TLC

\* ------------------------------------------------------------------ bounds
\* features ever constructed, strings ever duplicated, geometries ever made
MaxFeat == 2
MaxStr == 3
MaxGeom == 3
\* features ever constructed in the runs that exercise the field accessors
MaxFieldFeat == 1

\* --------------------------------------------------------------- constants
NULL == 0
OGRNullFID == -1
Scale == 100

\* ------------------------------------------------------- C library helpers
Digits == <<"0", "1", "2", "3", "4", "5", "6", "7", "8", "9">>

IsDigit(c) == \E k \in 1..10 : Digits[k] = c

DigitVal(c) == (CHOOSE k \in 1..10 : Digits[k] = c) - 1

IsSpace(c) == c \in {" ", "\t", "\n"}

Tail0(s) == IF s = <<>> THEN <<>> ELSE Tail(s)

RECURSIVE SkipSpace(_)
SkipSpace(s) ==
    IF s # <<>> /\ IsSpace(Head(s)) THEN SkipSpace(Tail(s)) ELSE s

\* the value of the leading run of digits of s, continuing from acc
RECURSIVE DigitRun(_, _)
DigitRun(s, acc) ==
    IF s # <<>> /\ IsDigit(Head(s))
    THEN DigitRun(Tail(s), acc * 10 + DigitVal(Head(s)))
    ELSE acc

RECURSIVE DropDigits(_)
DropDigits(s) ==
    IF s # <<>> /\ IsDigit(Head(s)) THEN DropDigits(Tail(s)) ELSE s

HasSign(s) == s # <<>> /\ Head(s) \in {"-", "+"}

SignOf(s) == IF s # <<>> /\ Head(s) = "-" THEN -1 ELSE 1

\* atoi(): white space, an optional sign, then decimal digits
atoi(str) ==
    LET s == SkipSpace(str)
        d == IF HasSign(s) THEN Tail(s) ELSE s
    IN  SignOf(s) * DigitRun(d, 0)

\* the first two fraction digits of s, as hundredths
Frac2(s) ==
    LET d1 == IF s # <<>> /\ IsDigit(Head(s)) THEN DigitVal(Head(s)) ELSE 0
        t  == Tail0(s)
        d2 == IF s # <<>> /\ IsDigit(Head(s)) /\ t # <<>> /\ IsDigit(Head(t))
              THEN DigitVal(Head(t)) ELSE 0
    IN  d1 * 10 + d2

\* atof(): white space, an optional sign, digits, an optional fraction.
\* The result is in 1/Scale units.
atof(str) ==
    LET s == SkipSpace(str)
        d == IF HasSign(s) THEN Tail(s) ELSE s
        r == DropDigits(d)
        f == IF r # <<>> /\ Head(r) = "." THEN Frac2(Tail(r)) ELSE 0
    IN  SignOf(s) * (DigitRun(d, 0) * Scale + f)

RECURSIVE NatText(_)
NatText(n) ==
    IF n < 10 THEN <<Digits[n + 1]>>
    ELSE NatText(n \div 10) \o <<Digits[(n % 10) + 1]>>

Abs(n) == IF n < 0 THEN -n ELSE n

\* sprintf( "%d", n )
FormatD(n) == IF n < 0 THEN <<"-">> \o NatText(-n) ELSE NatText(n)

\* sprintf( "%g", r ) for r in 1/Scale units: no trailing zeros, no
\* decimal point when the fraction is zero
FormatG(r) ==
    LET a  == Abs(r)
        ip == a \div Scale
        fp == a % Scale
        fr == IF fp = 0 THEN <<>>
              ELSE IF fp % 10 = 0 THEN <<".", Digits[(fp \div 10) + 1]>>
              ELSE <<".", Digits[(fp \div 10) + 1], Digits[(fp % 10) + 1]>>
    IN  (IF r < 0 THEN <<"-">> ELSE <<>>) \o NatText(ip) \o fr

\* a cast that rounds down instead
DoubleToInt_Floor(r) == r \div Scale

\* (int) of a double: truncation toward zero
DoubleToInt(r) == IF r < 0 THEN -((-r) \div Scale) ELSE r \div Scale

\* (double) of an int
IntToDouble(n) == n * Scale


\* ------------------------------------------------------------ input domains
\* the two feature definitions: the same layout, two instances
Defns == {1, 2}

IntIn == {42, -7}

\* 12.5 and -2.7
DblIn == {1250, -270}

\* "3.14", "-7x", "Lot A"
StrIn == { <<"3", ".", "1", "4">>, <<"-", "7", "x">>, <<"L", "o", "t", " ", "A">> }

\* the field layouts of the feature definitions
LayoutLife == <<"OFTString", "OFTInteger">>

Layouts == { <<"OFTString", "OFTInteger">>, <<"OFTReal", "OFTIntegerList">> }

FidIn == {OGRNullFID, 100}

GeomVals == {"P", "Q"}

\* a NULL const char *
NullStr == <<"NULL">>

\* ------------------------------------------------------------------- state
VARIABLES
    papoFieldDefn,  \* OGRFeatureDefn::papoFieldDefn, per feature definition
    nRefCount,      \* OGRFeatureDefn::nRefCount, per feature definition
    alive,          \* per feature: constructed and not yet destroyed
    poDefn,         \* OGRFeature::poDefn
    nFID,           \* OGRFeature::nFID
    poGeometry,     \* OGRFeature::poGeometry, an address in geomHeap or NULL
    pauFields,      \* OGRFeature::pauFields, the slot array
    strHeap,        \* strings allocated by CPLStrdup
    geomHeap,       \* geometries allocated by the caller or by clone()
    szTempBuffer,   \* the static buffer of GetFieldAsString
    halted,         \* "no", or how the process ended
    ret,            \* the last operation: its name, arguments and result
    lastSet,        \* per slot: the setter last applied to it and its argument
    nRefBase,       \* the reference count the feature definitions started with
    held            \* a GetFieldAsString result that the caller kept

vars == <<papoFieldDefn, nRefCount, alive, poDefn, nFID, poGeometry, pauFields,
          strHeap, geomHeap, szTempBuffer, halted, ret, lastSet, nRefBase,
          held>>

\* the memory of the process as one record, so that a method can call another
State ==
    [ nRefCount |-> nRefCount, alive |-> alive, poDefn |-> poDefn,
      nFID |-> nFID, poGeometry |-> poGeometry, pauFields |-> pauFields,
      strHeap |-> strHeap, geomHeap |-> geomHeap,
      szTempBuffer |-> szTempBuffer, halted |-> halted ]

Apply(m) ==
    /\ nRefCount' = m.nRefCount
    /\ alive' = m.alive
    /\ poDefn' = m.poDefn
    /\ nFID' = m.nFID
    /\ poGeometry' = m.poGeometry
    /\ pauFields' = m.pauFields
    /\ strHeap' = m.strHeap
    /\ geomHeap' = m.geomHeap
    /\ szTempBuffer' = m.szTempBuffer
    /\ halted' = m.halted

Features == 1..Len(alive)

Live == {f \in Features : alive[f]}

\* the slots of feature f that hold strings
StringSlots(f) ==
    {k \in 1..Len(pauFields[f]) : papoFieldDefn[poDefn[f]][k] = "OFTString"}

\* --------------------------------------------------------- OGRFeatureDefn
\* the types of the fields of feature definition d, in order
DefnFields(d) == papoFieldDefn[d]

GetFieldCount(d) == Len(DefnFields(d))

\* a NULL OGRFieldDefn *
NoFieldDefn == "NULL"

\* the field definition of index iField (from 0), NULL when out of range;
\* a field definition is represented by its type
GetFieldDefn(d, iField) ==
    IF iField < 0 \/ iField >= GetFieldCount(d) THEN NoFieldDefn
    ELSE DefnFields(d)[iField + 1]

Reference(m, d) == [m EXCEPT !.nRefCount[d] = @ + 1]

Dereference(m, d) == [m EXCEPT !.nRefCount[d] = @ - 1]

\* ------------------------------------------------------------ CPL helpers
\* CPLFree( p ): nothing for NULL; what a released block holds is no
\* longer defined, it is cleared here
CPLFree(m, p) ==
    IF p = NULL THEN m
    ELSE [m EXCEPT !.strHeap[p].frees = @ + 1, !.strHeap[p].val = <<>>]

\* CPLStrdup( s ) on behalf of feature f: a NULL s is duplicated as "";
\* the new string's address is Len(m.strHeap) + 1
CPLStrdup(m, s, f) ==
    [m EXCEPT !.strHeap = Append(@,
        [val |-> IF s = NullStr THEN <<>> ELSE s, frees |-> 0, owner |-> f])]

\* CPLAssert( poFDefn != NULL ) failing: the process ends
AssertFail(m) == [m EXCEPT !.halted = "assert"]

\* ------------------------------------------------------------ OGRGeometry
\* delete poGeom; what a deleted object holds is no longer defined
DeleteGeom(m, g) ==
    [m EXCEPT !.geomHeap[g].dels = @ + 1, !.geomHeap[g].val = "deleted"]

\* poGeom->clone() of a live geometry, for feature f
CloneGeom(m, v, f) ==
    [m EXCEPT !.geomHeap = Append(@, [val |-> v, dels |-> 0, owner |-> f])]

\* poGeom->Equal( poOther )
GeomEqual(m, g, h) ==
    IF h = NULL THEN FALSE ELSE m.geomHeap[g].val = m.geomHeap[h].val

\* what clone() called on a deleted geometry can do: end the process, or
\* return a geometry built from whatever the released memory holds
UBOutcomes == {"segv"} \cup GeomVals

\* ------------------------------------------------------------- OGRFeature
\* a constructor that does not take its reference
Ctor_NoReference(m, d) ==
    [m EXCEPT
        !.alive = Append(@, TRUE),
        !.poDefn = Append(@, d),
        !.nFID = Append(@, OGRNullFID),
        !.poGeometry = Append(@, NULL),
        !.pauFields = Append(@, [k \in 1..GetFieldCount(d) |-> 0])]

\* OGRFeature::OGRFeature( poDefnIn ); the new feature is Len(m.alive) + 1
Ctor(m, d) ==
    LET m1 == Reference(m, d)
    IN  [m1 EXCEPT
            !.alive = Append(@, TRUE),
            !.poDefn = Append(@, d),
            !.nFID = Append(@, OGRNullFID),
            !.poGeometry = Append(@, NULL),
            !.pauFields = Append(@, [k \in 1..GetFieldCount(d) |-> 0])]

\* the loop of ~OGRFeature over the fields from index i (from 0)
RECURSIVE DtorFields(_, _, _)
DtorFields(m, f, i) ==
    IF i >= GetFieldCount(m.poDefn[f]) THEN m
    ELSE IF GetFieldDefn(m.poDefn[f], i) = "OFTString"
              /\ m.pauFields[f][i + 1] # NULL
         THEN DtorFields(CPLFree(m, m.pauFields[f][i + 1]), f, i + 1)
         ELSE DtorFields(m, f, i + 1)

\* OGRFeature::~OGRFeature(); the object is gone afterwards, its members
\* are cleared here to stand for that
Dtor(m, f) ==
    LET m1 == Dereference(m, m.poDefn[f])
        m2 == IF m1.poGeometry[f] # NULL
              THEN DeleteGeom(m1, m1.poGeometry[f]) ELSE m1
        m3 == DtorFields(m2, f, 0)
    IN  [m3 EXCEPT !.alive[f] = FALSE, !.pauFields[f] = <<>>,
                   !.poDefn[f] = NULL, !.nFID[f] = OGRNullFID,
                   !.poGeometry[f] = NULL]

\* what ~OGRFeature does, in the order it does it
RECURSIVE DtorFieldEvents(_, _, _)
DtorFieldEvents(m, f, i) ==
    <<"GetFieldCount">> \o
    IF i >= GetFieldCount(m.poDefn[f]) THEN <<>>
    ELSE <<"GetFieldDefn">> \o
         (IF GetFieldDefn(m.poDefn[f], i) = "OFTString"
              /\ m.pauFields[f][i + 1] # NULL
          THEN <<"CPLFree(String)">> ELSE <<>>) \o
         DtorFieldEvents(m, f, i + 1)

DtorEvents(m, f) ==
    <<"Dereference">> \o
    (IF m.poGeometry[f] # NULL THEN <<"delete poGeometry">> ELSE <<>>) \o
    DtorFieldEvents(m, f, 0) \o
    <<"CPLFree(pauFields)">>

\* OGRFeature::SetGeometryDirectly( poGeomIn )
SetGeometryDirectly(m, f, g) ==
    LET m1 == IF m.poGeometry[f] # NULL
              THEN DeleteGeom(m, m.poGeometry[f]) ELSE m
    IN  [m1 EXCEPT !.poGeometry[f] = g, !.geomHeap[g].owner = f]

\* OGRFeature::SetGeometry( poGeomIn ).  poGeomIn->clone() is a virtual
\* call: through NULL it reads the table of functions at address 0 and the
\* process ends; on a geometry deleted the line before it takes outcome ub
SetGeometry(m, f, g, ub) ==
    LET m1 == IF m.poGeometry[f] # NULL
              THEN DeleteGeom(m, m.poGeometry[f]) ELSE m
        ok == g # NULL /\ m1.geomHeap[g].dels = 0
        v  == IF ok THEN m1.geomHeap[g].val ELSE ub
    IN  IF g = NULL \/ (~ok /\ ub = "segv")
        THEN [m1 EXCEPT !.halted = "segv"]
        ELSE [CloneGeom(m1, v, f) EXCEPT
                 !.poGeometry[f] = Len(m1.geomHeap) + 1]

\* an integer setter with the OFTInteger and OFTReal stores exchanged
SetFieldInteger_Swapped(m, f, iField, nValue) ==
    LET t == GetFieldDefn(m.poDefn[f], iField)
    IN  IF t = NoFieldDefn THEN AssertFail(m)
        ELSE IF t = "OFTInteger"
        THEN [m EXCEPT !.pauFields[f][iField + 1] = IntToDouble(nValue)]
        ELSE IF t = "OFTReal"
        THEN [m EXCEPT !.pauFields[f][iField + 1] = nValue]
        ELSE IF t = "OFTString"
        THEN LET m1 == CPLFree(m, m.pauFields[f][iField + 1])
             IN  [CPLStrdup(m1, FormatD(nValue), f) EXCEPT
                     !.pauFields[f][iField + 1] = Len(m1.strHeap) + 1]
        ELSE m

\* OGRFeature::SetField( iField, int nValue )
SetFieldInteger(m, f, iField, nValue) ==
    LET t == GetFieldDefn(m.poDefn[f], iField)
    IN  IF t = NoFieldDefn THEN AssertFail(m)
        ELSE IF t = "OFTInteger"
        THEN [m EXCEPT !.pauFields[f][iField + 1] = nValue]
        ELSE IF t = "OFTReal"
        THEN [m EXCEPT !.pauFields[f][iField + 1] = IntToDouble(nValue)]
        ELSE IF t = "OFTString"
        THEN LET m1 == CPLFree(m, m.pauFields[f][iField + 1])
             IN  [CPLStrdup(m1, FormatD(nValue), f) EXCEPT
                     !.pauFields[f][iField + 1] = Len(m1.strHeap) + 1]
        ELSE m

\* a double setter that stores into a slot of any other kind as well
SetFieldDouble_AnyKind(m, f, iField, dfValue) ==
    LET t == GetFieldDefn(m.poDefn[f], iField)
    IN  IF t = NoFieldDefn THEN AssertFail(m)
        ELSE IF t = "OFTReal"
        THEN [m EXCEPT !.pauFields[f][iField + 1] = dfValue]
        ELSE IF t = "OFTInteger"
        THEN [m EXCEPT !.pauFields[f][iField + 1] = DoubleToInt(dfValue)]
        ELSE IF t = "OFTString"
        THEN LET m1 == CPLFree(m, m.pauFields[f][iField + 1])
             IN  [CPLStrdup(m1, FormatG(dfValue), f) EXCEPT
                     !.pauFields[f][iField + 1] = Len(m1.strHeap) + 1]
        ELSE [m EXCEPT !.pauFields[f][iField + 1] = dfValue]

\* OGRFeature::SetField( iField, double dfValue )
SetFieldDouble(m, f, iField, dfValue) ==
    LET t == GetFieldDefn(m.poDefn[f], iField)
    IN  IF t = NoFieldDefn THEN AssertFail(m)
        ELSE IF t = "OFTReal"
        THEN [m EXCEPT !.pauFields[f][iField + 1] = dfValue]
        ELSE IF t = "OFTInteger"
        THEN [m EXCEPT !.pauFields[f][iField + 1] = DoubleToInt(dfValue)]
        ELSE IF t = "OFTString"
        THEN LET m1 == CPLFree(m, m.pauFields[f][iField + 1])
             IN  [CPLStrdup(m1, FormatG(dfValue), f) EXCEPT
                     !.pauFields[f][iField + 1] = Len(m1.strHeap) + 1]
        ELSE m

\* a string setter that does not release the string it replaces
SetFieldString_Leak(m, f, iField, pszValue) ==
    LET t == GetFieldDefn(m.poDefn[f], iField)
    IN  IF t = NoFieldDefn THEN AssertFail(m)
        ELSE IF t = "OFTString"
        THEN [CPLStrdup(m, pszValue, f) EXCEPT
                 !.pauFields[f][iField + 1] = Len(m.strHeap) + 1]
        ELSE IF t = "OFTInteger"
        THEN [m EXCEPT !.pauFields[f][iField + 1] = atoi(pszValue)]
        ELSE IF t = "OFTReal"
        THEN [m EXCEPT !.pauFields[f][iField + 1] = atof(pszValue)]
        ELSE m

\* OGRFeature::SetField( iField, const char * pszValue )
SetFieldString(m, f, iField, pszValue) ==
    LET t == GetFieldDefn(m.poDefn[f], iField)
    IN  IF t = NoFieldDefn THEN AssertFail(m)
        ELSE IF t = "OFTString"
        THEN LET m1 == CPLFree(m, m.pauFields[f][iField + 1])
             IN  [CPLStrdup(m1, pszValue, f) EXCEPT
                     !.pauFields[f][iField + 1] = Len(m1.strHeap) + 1]
        ELSE IF t = "OFTInteger"
        THEN [m EXCEPT !.pauFields[f][iField + 1] = atoi(pszValue)]
        ELSE IF t = "OFTReal"
        THEN [m EXCEPT !.pauFields[f][iField + 1] = atof(pszValue)]
        ELSE m

\* a raw-slot setter that tolerates an invalid index
SetFieldRaw_NoAssert(m, f, iField, puValue) ==
    LET t == GetFieldDefn(m.poDefn[f], iField)
    IN  IF t = "OFTInteger"
        THEN [m EXCEPT !.pauFields[f][iField + 1] = puValue]
        ELSE IF t = "OFTReal"
        THEN [m EXCEPT !.pauFields[f][iField + 1] = puValue]
        ELSE IF t = "OFTString"
        THEN LET m1 == CPLFree(m, m.pauFields[f][iField + 1])
             IN  [CPLStrdup(m1, puValue, f) EXCEPT
                     !.pauFields[f][iField + 1] = Len(m1.strHeap) + 1]
        ELSE m

\* OGRFeature::SetField( iField, OGRField * puValue ).  puValue is the
\* member of the union that the kind of iField names: an int, a double, or
\* a string (NullStr for a NULL String member)
SetFieldRaw(m, f, iField, puValue) ==
    LET t == GetFieldDefn(m.poDefn[f], iField)
    IN  IF t = NoFieldDefn THEN AssertFail(m)
        ELSE IF t = "OFTInteger"
        THEN [m EXCEPT !.pauFields[f][iField + 1] = puValue]
        ELSE IF t = "OFTReal"
        THEN [m EXCEPT !.pauFields[f][iField + 1] = puValue]
        ELSE IF t = "OFTString"
        THEN LET m1 == CPLFree(m, m.pauFields[f][iField + 1])
             IN  [CPLStrdup(m1, puValue, f) EXCEPT
                     !.pauFields[f][iField + 1] = Len(m1.strHeap) + 1]
        ELSE m

\* pauFields + i of feature f, as SetField( int, OGRField * ) reads it
RawField(m, f, iField) ==
    LET t == GetFieldDefn(m.poDefn[f], iField)
        u == m.pauFields[f][iField + 1]
    IN  IF t = "OFTString"
        THEN (IF u = NULL THEN NullStr ELSE m.strHeap[u].val)
        ELSE u

\* the loop of Clone over the fields from index i
RECURSIVE CloneFields(_, _, _, _)
CloneFields(m, f, new, i) ==
    IF i >= GetFieldCount(m.poDefn[f]) THEN m
    ELSE CloneFields(SetFieldRaw(m, new, i, RawField(m, f, i)), f, new, i + 1)

\* OGRFeature::Clone(); the clone is Len(m.alive) + 1
Clone(m, f) ==
    LET new == Len(m.alive) + 1
        m1  == Ctor(m, m.poDefn[f])
        m2  == SetGeometry(m1, new, m1.poGeometry[f], "segv")
    IN  IF m2.halted # "no" THEN m2 ELSE CloneFields(m2, f, new, 0)

\* OGRFeature::GetFieldAsInteger( iField ), iField in range
GetFieldAsInteger(m, f, iField) ==
    LET t == GetFieldDefn(m.poDefn[f], iField)
        u == m.pauFields[f][iField + 1]
    IN  IF t = "OFTInteger" THEN u
        ELSE IF t = "OFTReal" THEN DoubleToInt(u)
        ELSE IF t = "OFTString"
        THEN (IF u = NULL THEN 0 ELSE atoi(m.strHeap[u].val))
        ELSE 0

\* OGRFeature::GetFieldAsDouble( iField ), iField in range
GetFieldAsDouble(m, f, iField) ==
    LET t == GetFieldDefn(m.poDefn[f], iField)
        u == m.pauFields[f][iField + 1]
    IN  IF t = "OFTReal" THEN u
        ELSE IF t = "OFTInteger" THEN IntToDouble(u)
        ELSE IF t = "OFTString"
        THEN (IF u = NULL THEN 0 ELSE atof(m.strHeap[u].val))
        ELSE 0

\* a text getter that passes the strings through its buffer as well
GetFieldAsStringBuffer_Strings(m, f, iField) ==
    LET t == GetFieldDefn(m.poDefn[f], iField)
        u == m.pauFields[f][iField + 1]
    IN  IF t = "OFTInteger" THEN FormatD(u)
        ELSE IF t = "OFTReal" THEN FormatG(u)
        ELSE IF t = "OFTString"
        THEN (IF u = NULL THEN <<>> ELSE m.strHeap[u].val)
        ELSE m.szTempBuffer

\* OGRFeature::GetFieldAsString( iField ), iField in range: what it leaves
\* in szTempBuffer
GetFieldAsStringBuffer(m, f, iField) ==
    LET t == GetFieldDefn(m.poDefn[f], iField)
        u == m.pauFields[f][iField + 1]
    IN  IF t = "OFTInteger" THEN FormatD(u)
        ELSE IF t = "OFTReal" THEN FormatG(u)
        ELSE m.szTempBuffer

\* ... and where the pointer it returns points: the feature's own string,
\* the static buffer, or a literal ""
GetFieldAsStringRef(m, f, iField) ==
    LET t == GetFieldDefn(m.poDefn[f], iField)
        u == m.pauFields[f][iField + 1]
    IN  IF t = "OFTString"
        THEN (IF u = NULL THEN "literal" ELSE "String")
        ELSE IF t \in {"OFTInteger", "OFTReal"} THEN "szTempBuffer"
        ELSE "literal"

\* ... and the text at that pointer when it returns
GetFieldAsString(m, f, iField) ==
    LET r == GetFieldAsStringRef(m, f, iField)
    IN  IF r = "String" THEN m.strHeap[m.pauFields[f][iField + 1]].val
        ELSE IF r = "szTempBuffer" THEN GetFieldAsStringBuffer(m, f, iField)
        ELSE <<>>

\* the loop of DumpReadable over the fields from index i: each pass calls
\* GetFieldAsString( i ) and prints what it returns
RECURSIVE DumpFields(_, _, _)
DumpFields(m, f, i) ==
    IF i >= GetFieldCount(m.poDefn[f]) THEN m
    ELSE DumpFields([m EXCEPT !.szTempBuffer = GetFieldAsStringBuffer(m, f, i)],
                    f, i + 1)

\* OGRFeature::DumpReadable( fpOut ): the memory afterwards
DumpReadable(m, f) == DumpFields(m, f, 0)

\* ... and the field values it printed from index i, one per line
RECURSIVE DumpOutput(_, _, _)
DumpOutput(m, f, i) ==
    IF i >= GetFieldCount(m.poDefn[f]) THEN <<>>
    ELSE GetFieldAsString(m, f, i) \o <<"\n">> \o
         DumpOutput([m EXCEPT !.szTempBuffer = GetFieldAsStringBuffer(m, f, i)],
                    f, i + 1)

\* OGRFeature::SetFID( nFIDIn )
SetFID(m, f, nFIDIn) == [m EXCEPT !.nFID[f] = nFIDIn]

\* an Equal that also compares when only the other feature has a geometry
Equal_BothSides(m, a, b) ==
    IF b = a THEN TRUE
    ELSE IF m.nFID[a] # m.nFID[b] THEN FALSE
    ELSE IF m.poDefn[a] # m.poDefn[b] THEN FALSE
    ELSE IF m.poGeometry[a] = NULL THEN m.poGeometry[b] = NULL
    ELSE GeomEqual(m, m.poGeometry[a], m.poGeometry[b])

\* OGRFeature::Equal( poFeature ), this = a, poFeature = b
Equal(m, a, b) ==
    IF b = a THEN TRUE
    ELSE IF m.nFID[a] # m.nFID[b] THEN FALSE
    ELSE IF m.poDefn[a] # m.poDefn[b] THEN FALSE
    ELSE IF m.poGeometry[a] # NULL
            /\ ~GeomEqual(m, m.poGeometry[a], m.poGeometry[b]) THEN FALSE
    ELSE TRUE


\* ----------------------------------------------------------------- actions
Running == halted = "no"

Indexes(f) == -1 .. GetFieldCount(poDefn[f])

InRange(f, i) == GetFieldDefn(poDefn[f], i) # NoFieldDefn

KindOf(f, i) == GetFieldDefn(poDefn[f], i)

\* the record of an operation: its name, the feature and index it was
\* called on, a further argument, and its result as a number (val), a
\* truth value (ok) or a text (txt, which ref locates)
Result(op, f, i, arg, val) ==
    [op |-> op, f |-> f, i |-> i, arg |-> arg, val |-> val,
     ok |-> FALSE, txt |-> <<>>, ref |-> ""]

Unset == [how |-> "none", n |-> 0, s |-> <<>>]

\* the caller keeps no GetFieldAsString result
NoHold == [ref |-> "", txt |-> <<>>, p |-> NULL, f |-> 0, i |-> 0]

\* a SetField on an OFTString field allocates
StrRoom(f, i) == KindOf(f, i) = "OFTString" => Len(strHeap) < MaxStr

\* note the setter applied to slot i of f, and its argument
Remember(f, i, how, n, s) ==
    IF KindOf(f, i) \notin {"OFTInteger", "OFTReal", "OFTString"} THEN lastSet
    ELSE [lastSet EXCEPT ![f][i + 1] = [how |-> how, n |-> n, s |-> s]]

InitWith(layouts, bases) ==
    /\ \E l \in layouts : papoFieldDefn = [d \in Defns |-> l]
    /\ nRefBase \in bases
    /\ nRefCount = [d \in Defns |-> nRefBase]
    /\ alive = <<>>
    /\ poDefn = <<>>
    /\ nFID = <<>>
    /\ poGeometry = <<>>
    /\ pauFields = <<>>
    /\ strHeap = <<>>
    /\ geomHeap = <<>>
    /\ szTempBuffer = <<>>
    /\ halted = "no"
    /\ ret = Result("none", 0, 0, 0, 0)
    /\ lastSet = <<>>
    /\ held = NoHold

\* new OGRFeature( poDefn ), while fewer than cap features were constructed
DoConstruct(d, cap) ==
    /\ Running
    /\ Len(alive) < cap
    /\ Apply(Ctor(State, d))
    /\ ret' = Result("OGRFeature", Len(alive) + 1, 0, d, 0)
    /\ lastSet' = Append(lastSet, [k \in 1..GetFieldCount(d) |-> Unset])
    /\ UNCHANGED <<papoFieldDefn, nRefBase, held>>

\* delete poFeature; txt is what the destructor did, in order
DoDestroy(f) ==
    /\ Running
    /\ f \in Live
    /\ Apply(Dtor(State, f))
    /\ ret' = [Result("~OGRFeature", f, 0, poDefn[f], 0)
                  EXCEPT !.txt = DtorEvents(State, f)]
    /\ lastSet' = [lastSet EXCEPT ![f] = <<>>]
    /\ UNCHANGED <<papoFieldDefn, nRefBase, held>>

\* the caller creates a geometry of its own
DoNewGeometry(v) ==
    /\ Running
    /\ Len(geomHeap) < MaxGeom
    /\ geomHeap' = Append(geomHeap, [val |-> v, dels |-> 0, owner |-> 0])
    /\ ret' = Result("new OGRGeometry", 0, 0, 0, 0)
    /\ UNCHANGED <<nRefCount, alive, poDefn, nFID, poGeometry, pauFields,
                   strHeap, szTempBuffer, halted, lastSet,
                   papoFieldDefn, nRefBase, held>>

\* poFeature->SetGeometryDirectly( g ), g a geometry the caller owns
DoSetGeometryDirectly(f, g) ==
    /\ Running
    /\ f \in Live
    /\ g \in 1..Len(geomHeap)
    /\ geomHeap[g].owner = 0 /\ geomHeap[g].dels = 0
    /\ Apply(SetGeometryDirectly(State, f, g))
    /\ ret' = Result("SetGeometryDirectly", f, 0, g, 0)
    /\ UNCHANGED <<lastSet,
                   papoFieldDefn, nRefBase, held>>

\* poFeature->SetGeometry( g ), g any geometry that is live: one of the
\* caller's, or the GetGeometryRef() of a feature; ref is what g held
DoSetGeometry(f, g, ub) ==
    /\ Running
    /\ f \in Live
    /\ g \in 1..Len(geomHeap)
    /\ geomHeap[g].dels = 0
    /\ Len(geomHeap) < MaxGeom
    /\ Apply(SetGeometry(State, f, g, ub))
    /\ ret' = [Result("SetGeometry", f, 0, g, 0)
                  EXCEPT !.ref = geomHeap[g].val]
    /\ UNCHANGED <<lastSet,
                   papoFieldDefn, nRefBase, held>>

\* poFeature->Clone(); val is the clone
DoClone(f) ==
    /\ Running
    /\ f \in Live
    /\ Len(alive) < MaxFeat
    /\ Len(geomHeap) < MaxGeom
    /\ Len(strHeap) + Cardinality(StringSlots(f)) <= MaxStr
    /\ Apply(Clone(State, f))
    /\ ret' = Result("Clone", f, 0, 0, Len(alive) + 1)
    /\ lastSet' = Append(lastSet, [k \in 1..GetFieldCount(poDefn[f]) |-> Unset])
    /\ UNCHANGED <<papoFieldDefn, nRefBase, held>>

\* poFeature->SetField( i, n )
DoSetFieldInteger(f, i, n) ==
    /\ Running
    /\ f \in Live
    /\ StrRoom(f, i)
    /\ Apply(SetFieldInteger(State, f, i, n))
    /\ ret' = Result("SetField(int)", f, i, 0, 0)
    /\ lastSet' = Remember(f, i, "int", n, <<>>)
    /\ UNCHANGED <<papoFieldDefn, nRefBase, held>>

\* poFeature->SetField( i, r )
DoSetFieldDouble(f, i, r) ==
    /\ Running
    /\ f \in Live
    /\ StrRoom(f, i)
    /\ Apply(SetFieldDouble(State, f, i, r))
    /\ ret' = Result("SetField(double)", f, i, 0, 0)
    /\ lastSet' = Remember(f, i, "double", r, <<>>)
    /\ UNCHANGED <<papoFieldDefn, nRefBase, held>>

\* poFeature->SetField( i, s )
DoSetFieldString(f, i, s) ==
    /\ Running
    /\ f \in Live
    /\ StrRoom(f, i)
    /\ Apply(SetFieldString(State, f, i, s))
    /\ ret' = Result("SetField(string)", f, i, 0, 0)
    /\ lastSet' = Remember(f, i, "string", 0, s)
    /\ UNCHANGED <<papoFieldDefn, nRefBase, held>>

\* the OGRField values a caller passes for a slot of kind t
RawIn(t) ==
    IF t = "OFTInteger" THEN IntIn
    ELSE IF t = "OFTReal" THEN DblIn
    ELSE IF t = "OFTString" THEN StrIn \cup {NullStr}
    ELSE {0}

\* poFeature->SetField( i, &u )
DoSetFieldRaw(f, i, u) ==
    /\ Running
    /\ f \in Live
    /\ StrRoom(f, i)
    /\ Apply(SetFieldRaw(State, f, i, u))
    /\ ret' = Result("SetField(OGRField)", f, i, 0, 0)
    /\ lastSet' = IF KindOf(f, i) = "OFTString"
                  THEN Remember(f, i, "raw", 0, u)
                  ELSE Remember(f, i, "raw", u, <<>>)
    /\ UNCHANGED <<papoFieldDefn, nRefBase, held>>

\* poFeature->GetFieldAsInteger( i )
DoGetFieldAsInteger(f, i) ==
    /\ Running
    /\ f \in Live
    /\ IF InRange(f, i)
       THEN /\ ret' = Result("GetFieldAsInteger", f, i, 0,
                             GetFieldAsInteger(State, f, i))
            /\ UNCHANGED halted
       ELSE /\ ret' = Result("GetFieldAsInteger", f, i, 0, 0)
            /\ halted' = AssertFail(State).halted
    /\ UNCHANGED <<nRefCount, alive, poDefn, nFID, poGeometry, pauFields,
                   strHeap, geomHeap, szTempBuffer, lastSet,
                   papoFieldDefn, nRefBase, held>>

\* poFeature->GetFieldAsDouble( i )
DoGetFieldAsDouble(f, i) ==
    /\ Running
    /\ f \in Live
    /\ IF InRange(f, i)
       THEN /\ ret' = Result("GetFieldAsDouble", f, i, 0,
                             GetFieldAsDouble(State, f, i))
            /\ UNCHANGED halted
       ELSE /\ ret' = Result("GetFieldAsDouble", f, i, 0, 0)
            /\ halted' = AssertFail(State).halted
    /\ UNCHANGED <<nRefCount, alive, poDefn, nFID, poGeometry, pauFields,
                   strHeap, geomHeap, szTempBuffer, lastSet,
                   papoFieldDefn, nRefBase, held>>

\* poFeature->GetFieldAsString( i ); ref is where the result points, txt
\* the text there when the call returns
DoGetFieldAsString(f, i) ==
    /\ Running
    /\ f \in Live
    /\ IF InRange(f, i)
       THEN /\ ret' = [Result("GetFieldAsString", f, i, 0, 0)
                          EXCEPT !.ref = GetFieldAsStringRef(State, f, i),
                                 !.txt = GetFieldAsString(State, f, i)]
            /\ szTempBuffer' = GetFieldAsStringBuffer(State, f, i)
            /\ UNCHANGED halted
       ELSE /\ ret' = Result("GetFieldAsString", f, i, 0, 0)
            /\ halted' = AssertFail(State).halted
            /\ UNCHANGED szTempBuffer
    /\ UNCHANGED <<nRefCount, alive, poDefn, nFID, poGeometry, pauFields,
                   strHeap, geomHeap, lastSet,
                   papoFieldDefn, nRefBase, held>>

\* poFeature->DumpReadable( fpOut ); txt is what was printed for the fields
DoDumpReadable(f) ==
    /\ Running
    /\ f \in Live
    /\ Apply(DumpReadable(State, f))
    /\ ret' = [Result("DumpReadable", f, 0, 0, 0)
                  EXCEPT !.txt = DumpOutput(State, f, 0)]
    /\ UNCHANGED <<lastSet,
                   papoFieldDefn, nRefBase, held>>

\* const char *p = poFeature->GetFieldAsString( i ): the caller keeps the
\* pointer that the last call returned: where it points (ref, and the
\* address p when it is the feature's own string) and what it read as
DoHold ==
    /\ Running
    /\ ret.op = "GetFieldAsString"
    /\ held' = [ref |-> ret.ref, txt |-> ret.txt,
                p |-> IF ret.ref = "String"
                      THEN pauFields[ret.f][ret.i + 1] ELSE NULL,
                f |-> ret.f, i |-> ret.i]
    /\ held' # held
    /\ UNCHANGED <<nRefCount, alive, poDefn, nFID, poGeometry, pauFields,
                   strHeap, geomHeap, szTempBuffer, halted, ret, lastSet,
                   papoFieldDefn, nRefBase>>

\* poFeature->SetFID( id )
DoSetFID(f, id) ==
    /\ Running
    /\ f \in Live
    /\ Apply(SetFID(State, f, id))
    /\ ret' = Result("SetFID", f, 0, 0, 0)
    /\ UNCHANGED <<lastSet,
                   papoFieldDefn, nRefBase, held>>

\* a->Equal( b )
DoEqual(a, b) ==
    /\ Running
    /\ a \in Live /\ b \in Live
    /\ ret' = [Result("Equal", a, 0, b, 0) EXCEPT !.ok = Equal(State, a, b)]
    /\ UNCHANGED <<nRefCount, alive, poDefn, nFID, poGeometry, pauFields,
                   strHeap, geomHeap, szTempBuffer, halted, lastSet,
                   papoFieldDefn, nRefBase, held>>

\* ---------------------------------------------------------- specifications
\* Lifecycle, ownership and equality: up to MaxFeat features over two
\* feature definitions, with geometries, ids and one integer field value.
Init == InitWith({LayoutLife}, 0..1)

Next ==
    \/ \E d \in Defns : DoConstruct(d, MaxFeat)
    \/ \E f \in Live : DoDestroy(f)
    \/ \E v \in GeomVals : DoNewGeometry(v)
    \/ \E f \in Live, g \in 1..Len(geomHeap) : DoSetGeometryDirectly(f, g)
    \/ \E f \in Live, g \in 1..Len(geomHeap), ub \in UBOutcomes :
          DoSetGeometry(f, g, ub)
    \/ \E f \in Live : DoClone(f)
    \/ \E f \in Live : DoSetFieldInteger(f, 1, 42)
    \/ \E f \in Live, id \in FidIn : DoSetFID(f, id)
    \/ \E a \in Live, b \in Live : DoEqual(a, b)

Spec == Init /\ [][Next]_vars

\* The field accessors: up to MaxFieldFeat features, every setter and getter
\* on every index from one below to one above the valid range.
NextField ==
    \/ DoConstruct(1, MaxFieldFeat)
    \/ \E f \in Live : DoDestroy(f)
    \/ \E f \in Live : \E i \in Indexes(f), n \in IntIn :
          DoSetFieldInteger(f, i, n)
    \/ \E f \in Live : \E i \in Indexes(f), r \in DblIn :
          DoSetFieldDouble(f, i, r)
    \/ \E f \in Live : \E i \in Indexes(f), s \in StrIn :
          DoSetFieldString(f, i, s)
    \/ \E f \in Live : \E i \in Indexes(f) : \E u \in RawIn(KindOf(f, i)) :
          DoSetFieldRaw(f, i, u)
    \/ \E f \in Live : \E i \in Indexes(f) : DoGetFieldAsInteger(f, i)
    \/ \E f \in Live : \E i \in Indexes(f) : DoGetFieldAsDouble(f, i)
    \/ \E f \in Live : \E i \in Indexes(f) : DoGetFieldAsString(f, i)

InitField == InitWith(Layouts, {0})

SpecField == InitField /\ [][NextField]_vars

\* The mutators together: up to MaxFieldFeat features on one feature definition,
\* one value through every setter on every valid index, the id, the
\* geometry, and the getters.
FieldsOf(f) == 0 .. GetFieldCount(poDefn[f]) - 1

\* an OGRField for a slot of kind t
RawOne(t) ==
    IF t = "OFTInteger" THEN 42
    ELSE IF t = "OFTReal" THEN 1250
    ELSE IF t = "OFTString" THEN NullStr
    ELSE 0

NextFrame ==
    \/ DoConstruct(1, MaxFieldFeat)
    \/ \E f \in Live : \E i \in FieldsOf(f) : DoSetFieldInteger(f, i, 42)
    \/ \E f \in Live : \E i \in FieldsOf(f) : DoSetFieldDouble(f, i, -270)
    \/ \E f \in Live : \E i \in FieldsOf(f) :
          DoSetFieldString(f, i, <<"-", "7", "x">>)
    \/ \E f \in Live : \E i \in FieldsOf(f) :
          DoSetFieldRaw(f, i, RawOne(KindOf(f, i)))
    \/ \E f \in Live : DoSetFID(f, 100)
    \/ DoNewGeometry("P")
    \/ \E f \in Live, g \in 1..Len(geomHeap) : DoSetGeometryDirectly(f, g)
    \/ \E f \in Live, g \in 1..Len(geomHeap), ub \in UBOutcomes :
          DoSetGeometry(f, g, ub)
    \/ \E f \in Live : \E i \in FieldsOf(f) : DoGetFieldAsInteger(f, i)
    \/ \E f \in Live : \E i \in FieldsOf(f) : DoGetFieldAsDouble(f, i)
    \/ \E f \in Live : \E i \in FieldsOf(f) : DoGetFieldAsString(f, i)

SpecFrame == InitField /\ [][NextFrame]_vars

\* The text getter and its buffer: up to MaxFeat features with an Integer,
\* a Real and a String field, an integer set on any of them, the text
\* getter on any of them, DumpReadable, and a caller that keeps results.
LayoutText == <<"OFTInteger", "OFTReal", "OFTString">>

InitText == InitWith({LayoutText}, {0})

NextText ==
    \/ DoConstruct(1, MaxFeat)
    \/ \E f \in Live : \E i \in FieldsOf(f) : DoSetFieldInteger(f, i, 42)
    \/ \E f \in Live : \E i \in FieldsOf(f) : DoGetFieldAsString(f, i)
    \/ \E f \in Live : DoDumpReadable(f)
    \/ DoHold

SpecText == InitText /\ [][NextText]_vars


\* ------------------------------------------------------------------ claims
\* C1: for every feature f, with or without a geometry, Clone(f) completes
\* and returns a distinct feature on the same feature definition whose
\* fields read equal to f's through the three getters and whose id is
\* OGRNullFID.
C1_CloneCompletes ==
    ret.op = "Clone" =>
        /\ halted = "no"
        /\ ret.val # ret.f
        /\ alive[ret.val] /\ alive[ret.f]
        /\ poDefn[ret.val] = poDefn[ret.f]
        /\ nFID[ret.val] = OGRNullFID
        /\ \A i \in 0..(GetFieldCount(poDefn[ret.f]) - 1) :
              /\ GetFieldAsInteger(State, ret.val, i)
                    = GetFieldAsInteger(State, ret.f, i)
              /\ GetFieldAsDouble(State, ret.val, i)
                    = GetFieldAsDouble(State, ret.f, i)
              /\ GetFieldAsString(State, ret.val, i)
                    = GetFieldAsString(State, ret.f, i)

\* C2: every string a feature allocated is released at most once, and the
\* strings not yet released are exactly those that a String slot of a live
\* feature holds (one slot each, the feature being the one that allocated
\* it): an overwrite releases the string it replaces, the destructor the
\* ones still held, no string is released twice and none is left behind.
C2_StringsFreedOnce ==
    /\ \A p \in 1..Len(strHeap) :
          /\ strHeap[p].frees <= 1
          /\ strHeap[p].frees = 0 <=>
                /\ strHeap[p].owner \in Live
                /\ \E k \in StringSlots(strHeap[p].owner) :
                      pauFields[strHeap[p].owner][k] = p
    /\ \A f \in Live : \A k \in StringSlots(f) :
          pauFields[f][k] # NULL =>
              /\ pauFields[f][k] \in 1..Len(strHeap)
              /\ strHeap[pauFields[f][k]].owner = f

\* C2 witness: a feature that overwrote its string twice was destroyed, and
\* all three strings are released
C2_Witness ==
    /\ ret.op = "~OGRFeature"
    /\ Len(strHeap) = 3
    /\ \A p \in 1..Len(strHeap) : strHeap[p].frees = 1

\* C3: the reference count of a feature definition is the count it started
\* with plus the number of live features bound to it.
C3_RefCount ==
    \A d \in Defns :
        nRefCount[d] = nRefBase + Cardinality({f \in Live : poDefn[f] = d})

\* C3 witness: a feature was cloned and then destroyed; its clone lives on
C3_Witness ==
    /\ ret.op = "~OGRFeature"
    /\ Len(alive) = 2 /\ ~alive[1] /\ alive[2]
    /\ \E k \in StringSlots(2) : pauFields[2][k] # NULL
    /\ nRefCount[poDefn[2]] = nRefBase + 1

\* the geometries of features a and b are equal as geometries
ShapeEqual(a, b) ==
    /\ poGeometry[b] # NULL
    /\ geomHeap[poGeometry[a]].val = geomHeap[poGeometry[b]].val

C5_EqualAsDocumented ==
    (ret.op = "Equal" /\ ret.ok) =>
        LET a == ret.f
            b == ret.arg
        IN  /\ poDefn[a] = poDefn[b]
            /\ nFID[a] = nFID[b]
            /\ \A i \in 0..(GetFieldCount(poDefn[a]) - 1) :
                  /\ GetFieldAsInteger(State, a, i)
                        = GetFieldAsInteger(State, b, i)
                  /\ GetFieldAsDouble(State, a, i)
                        = GetFieldAsDouble(State, b, i)
                  /\ GetFieldAsString(State, a, i)
                        = GetFieldAsString(State, b, i)
            /\ IF poGeometry[a] = NULL THEN poGeometry[b] = NULL
               ELSE ShapeEqual(a, b)

\* C10: the destructor gives up its feature definition reference last, after
\* the geometry, the strings and the slot array, and does not read the
\* feature definition afterwards.
C10_DereferenceLast ==
    ret.op = "~OGRFeature" =>
        LET log == ret.txt
        IN  /\ log[Len(log)] = "Dereference"
            /\ \A j, k \in 1..Len(log) :
                  (log[j] = "Dereference" /\ j < k) =>
                      log[k] \notin {"GetFieldCount", "GetFieldDefn"}


Getters == {"GetFieldAsInteger", "GetFieldAsDouble", "GetFieldAsString"}

Setters ==
    {"SetField(int)", "SetField(double)", "SetField(string)",
     "SetField(OGRField)"}

\* a getter has returned from a valid index
Returned == ret.op \in Getters /\ halted = "no"

\* C6: after SetField( i, v ) with the overload of the kind of field i, the
\* getter of that kind returns v, whatever was set on other fields since.
C6_RoundTrip ==
    Returned =>
        LET g == lastSet[ret.f][ret.i + 1]
            k == KindOf(ret.f, ret.i)
        IN  /\ (ret.op = "GetFieldAsInteger" /\ k = "OFTInteger"
                  /\ g.how = "int") => ret.val = g.n
            /\ (ret.op = "GetFieldAsDouble" /\ k = "OFTReal"
                  /\ g.how = "double") => ret.val = g.n
            /\ (ret.op = "GetFieldAsString" /\ k = "OFTString"
                  /\ g.how = "string") => ret.txt = g.s

\* C6 witness: "Lot A" read back from the String field after the Integer
\* field beside it was set too
C6_Witness ==
    /\ Returned
    /\ ret.op = "GetFieldAsString"
    /\ KindOf(ret.f, ret.i) = "OFTString"
    /\ lastSet[ret.f][ret.i + 1].how = "string"
    /\ ret.txt = <<"L", "o", "t", " ", "A">>
    /\ \E j \in 1..Len(lastSet[ret.f]) :
          j # ret.i + 1 /\ lastSet[ret.f][j].how # "none"

\* the decimal text of the integers the callers pass
TextOfInt(n) == IF n = 42 THEN <<"4", "2">> ELSE <<"-", "7">>

\* the integer at the front of the strings the callers pass
IntPrefix(str) ==
    IF str = <<"3", ".", "1", "4">> THEN 3
    ELSE IF str = <<"-", "7", "x">> THEN -7
    ELSE 0

\* the number at the front of the strings the callers pass, in 1/Scale
RealPrefix(str) ==
    IF str = <<"3", ".", "1", "4">> THEN 314
    ELSE IF str = <<"-", "7", "x">> THEN -700
    ELSE 0

\* n is the double r with its fraction dropped
TruncatedTowardZero(r, n) ==
    /\ Abs(n) * Scale <= Abs(r)
    /\ Abs(r) < (Abs(n) + 1) * Scale
    /\ n # 0 => (n < 0 <=> r < 0)

OutOfRange ==
    /\ ret.op \in Getters \cup Setters
    /\ ~(0 <= ret.i /\ ret.i < GetFieldCount(poDefn[ret.f]))

\* C8: a field accessor called with an index outside 0 .. fieldCount - 1
\* ends in an assertion failure, returns nothing, and leaves the slots, the
\* id, the geometry and the feature definition as they were.
C8_OutOfRangeAsserts ==
    /\ [](OutOfRange => halted = "assert")
    /\ [][halted' = "assert" =>
            UNCHANGED <<pauFields, nFID, poGeometry, poDefn, nRefCount,
                        papoFieldDefn, strHeap, geomHeap, szTempBuffer,
                        alive>>]_vars

\* C8 witness: the raw-slot setter was called with index fieldCount on a
\* feature whose Integer field holds 42
C8_Witness ==
    /\ halted = "assert"
    /\ ret.op = "SetField(OGRField)"
    /\ ret.i = GetFieldCount(poDefn[ret.f])
    /\ \E k \in 1..Len(pauFields[ret.f]) : pauFields[ret.f][k] = 42

\* C9: the geometry of a live feature is none or a live geometry that this
\* feature alone owns; a geometry that a feature owned and no longer holds
\* was deleted exactly once; SetGeometry( s ) leaves s live and stores a
\* copy of s as it was, also when s is the feature's own GetGeometryRef().
C9_ShapeOwnership ==
    /\ \A f \in Live : poGeometry[f] # NULL =>
          /\ geomHeap[poGeometry[f]].dels = 0
          /\ geomHeap[poGeometry[f]].owner = f
    /\ \A g \in 1..Len(geomHeap) :
          /\ geomHeap[g].dels <= 1
          /\ (geomHeap[g].owner # 0
                /\ ~(geomHeap[g].owner \in Live
                       /\ poGeometry[geomHeap[g].owner] = g))
             => geomHeap[g].dels = 1
    /\ ret.op = "SetGeometry" =>
          /\ halted = "no"
          /\ geomHeap[ret.arg].dels = 0
          /\ poGeometry[ret.f] # ret.arg
          /\ geomHeap[poGeometry[ret.f]].val = ret.ref

\* every slot other than slot i of feature f holds what it held, at the
\* address it held it
OtherSlotsSame(f, i) ==
    \A g \in Live : \A j \in 0 .. GetFieldCount(poDefn[g]) - 1 :
        (g # f \/ j # i) =>
            /\ pauFields'[g][j + 1] = pauFields[g][j + 1]
            /\ RawField(State', g, j) = RawField(State, g, j)

\* the geometry of every feature other than f is the one it was
OtherGeometriesSame(f) ==
    \A g \in Live : g # f =>
        /\ poGeometry'[g] = poGeometry[g]
        /\ poGeometry[g] # NULL =>
              geomHeap'[poGeometry[g]] = geomHeap[poGeometry[g]]

\* C11: a SetField( i, v ), in each of its four overloads, changes at most
\* slot i of its feature, and no other slot, id, geometry or feature
\* definition; on a field that is not OFTInteger, OFTReal or OFTString it
\* changes nothing; SetFID changes only the id of its feature;
\* SetGeometryDirectly and SetGeometry, when they return, change only the
\* geometry of their feature; the getters change nothing of a feature.
C11_Frame ==
    [][ LET op == ret'.op
            f  == ret'.f
            i  == ret'.i
        IN  /\ op \in Setters =>
                  /\ OtherSlotsSame(f, i)
                  /\ UNCHANGED <<nFID, poGeometry, geomHeap, poDefn, nRefCount,
                                 papoFieldDefn, alive>>
                  /\ KindOf(f, i) \notin {"OFTInteger", "OFTReal", "OFTString"}
                        => UNCHANGED <<pauFields, strHeap>>
            /\ op = "SetFID" =>
                  /\ \A g \in Live : g # f => nFID'[g] = nFID[g]
                  /\ UNCHANGED <<pauFields, strHeap, poGeometry, geomHeap,
                                 poDefn, nRefCount, papoFieldDefn, alive>>
            /\ (op \in {"SetGeometryDirectly", "SetGeometry"}
                  /\ halted' = "no") =>
                  /\ OtherGeometriesSame(f)
                  /\ UNCHANGED <<pauFields, strHeap, nFID, poDefn, nRefCount,
                                 papoFieldDefn, alive>>
            /\ op \in Getters =>
                  UNCHANGED <<pauFields, strHeap, nFID, poGeometry, geomHeap,
                              poDefn, nRefCount, papoFieldDefn, alive>>
      ]_vars

\* C11 witness: a setter has returned from a field of another kind, on a
\* feature that has an id, a geometry and a value set in the field beside
\* it
C11_Witness ==
    /\ halted = "no"
    /\ ret.op \in Setters
    /\ KindOf(ret.f, ret.i) = "OFTIntegerList"
    /\ nFID[ret.f] # OGRNullFID
    /\ poGeometry[ret.f] # NULL
    /\ \E j \in 1..Len(lastSet[ret.f]) : lastSet[ret.f][j].how # "none"

\* what the pointer that the caller kept reads as now
ReadHeld ==
    IF held.ref = "szTempBuffer" THEN szTempBuffer
    ELSE IF held.ref = "String" THEN strHeap[held.p].val
    ELSE <<>>

\* this step is a later GetFieldAsString, or a DumpReadable, that returned
TextCall ==
    /\ held' = held
    /\ ret'.op \in {"GetFieldAsString", "DumpReadable"}
    /\ halted' = "no"

\* the Integer and Real fields of feature f
NumericFields(f) ==
    {j \in FieldsOf(f) : KindOf(f, j) \in {"OFTInteger", "OFTReal"}}

\* the decimal text of Integer or Real field j of feature f
NumberText(f, j) ==
    IF KindOf(f, j) = "OFTInteger" THEN FormatD(pauFields[f][j + 1])
    ELSE FormatG(pauFields[f][j + 1])

\* the number that this step formatted last, if it formatted any: the
\* field asked for, or the last Integer or Real field of the feature dumped
Formatted ==
    IF ret'.op = "GetFieldAsString"
    THEN (IF ret'.ref = "szTempBuffer" THEN ret'.txt ELSE ReadHeld)
    ELSE LET nums == NumericFields(ret'.f)
         IN  IF nums = {} THEN ReadHeld
             ELSE NumberText(ret'.f,
                             CHOOSE j \in nums : \A k \in nums : k <= j)

\* C12 as stated: a result that GetFieldAsString returned for an Integer
\* or Real field no longer reads as that field's text after the next
\* GetFieldAsString on any field of any feature, or the next DumpReadable;
\* a result returned for a String field reads the same after such a call.
C12_ScratchInvalidated ==
    [][ TextCall =>
            /\ (held.ref = "szTempBuffer" /\ ReadHeld = held.txt)
                  => ReadHeld' # held.txt
            /\ held.ref = "String" => ReadHeld' = ReadHeld
      ]_vars

\* C12: a result that GetFieldAsString returned for an Integer or Real
\* field points into one buffer for all fields and features; after a later
\* GetFieldAsString on an Integer or Real field of any feature, or a
\* DumpReadable of a feature that has one, it reads as the number that call
\* formatted last, and a call that formats no number leaves it as it was;
\* a result returned for a String field reads the same after such a call.
C12_ScratchShared ==
    [][ TextCall =>
            /\ held.ref = "szTempBuffer" => ReadHeld' = Formatted
            /\ held.ref = "String" => ReadHeld' = ReadHeld
      ]_vars

\* C12 witness: the caller kept the text of a number of one feature, and
\* after a GetFieldAsString on a number of another feature the pointer kept
\* reads as something else
C12_Witness ==
    /\ halted = "no"
    /\ held.ref = "szTempBuffer"
    /\ ret.op = "GetFieldAsString"
    /\ ret.ref = "szTempBuffer"
    /\ ret.f # held.f
    /\ ReadHeld # held.txt
    /\ ReadHeld = ret.txt

====
